---- MODULE Spec2Model ----
(***************************************************************************)
(* Model of bindings/c/libjsonnet_test_file.c: the host program main, the  *)
(* native callback native_add, and the part of the libjsonnet C interface  *)
(* they use.  main is modelled statement by statement (pc is the line that *)
(* is about to run); native_add is one action, run by the engine while     *)
(* jsonnet_evaluate_file is on the stack.                                  *)
(*                                                                         *)
(* Numbers stand for C doubles restricted to small integers, on which      *)
(* double addition is exact.  Strings are sequences of chunks.  malloc of  *)
(* the one-pointer context record is taken to succeed.                     *)
(***************************************************************************)
EXTENDS Integers, Sequences, FiniteSets, TLC

\* ---------------------------------------------------------------- bounds
MaxArgc == 3
MaxNum == 1
MaxHeap == 1
MaxCalls == 2

\* ------------------------------------------------------- program constants
EXIT_SUCCESS == 0
EXIT_FAILURE == 1
NATIVE_ADD_SUCCESS == 1

NULL == 0
VmId == 1
GarbagePtr == 2
NotExited == -1

UsageLine == <<"libjsonnet_test_file <file>\n">>
CallbackName == "nativeAdd"
params == <<"a", "b">>

\* ------------------------------------------------------------ input domains
Nums == 0..MaxNum
Strings == {<<>>, <<"5">>, <<"5", "\n">>}
Files == {"test.jsonnet"}
NumVal(n) == [kind |-> "num", n |-> n]
StrVal == [kind |-> "str", n |-> 0]
Values == {NumVal(n) : n \in Nums} \cup {StrVal}
NoCall == [arg0 |-> 0, arg1 |-> 0, a |-> 0, b |-> 0, ret |-> 0, success |-> 0,
           st0 |-> 0, st1 |-> 0, vmArg |-> 0, ctxState |-> "none",
           vmState |-> "none"]
NoReg == [name |-> "", ctx |-> "none", params |-> <<>>]

VARIABLES
    pc,          \* line of main about to run, "in_eval" inside the engine, "done"
    argc,        \* main's argc
    file,        \* argv[1]
    vm,          \* machine handle: "none", "live", "destroyed"
    native_ctx,  \* context record: [state, vm]
    registered,  \* the engine's registration of the native callback
    error,       \* main's int error
    output,      \* main's char *output (contents)
    outbuf,      \* engine buffer behind output: "none", "held", "released"
    heap,        \* engine value handles: handle h is heap[h]
    call,        \* last native_add invocation
    nCalls,      \* number of native_add invocations
    stdoutS,     \* bytes written to standard output
    stderrS,     \* bytes written to standard error
    exitCode,    \* process exit status, NotExited while running
    trace        \* library calls made so far, in order

vars == <<pc, argc, file, vm, native_ctx, registered, error, output, outbuf,
          heap, call, nCalls, stdoutS, stderrS, exitCode, trace>>

\* ------------------------------------------------------------------- engine
\* jsonnet_json_extract_number: status 1 and the number for a number value,
\* status 0 and the out-parameter left as it was otherwise.
jsonnet_json_extract_number(v, old) ==
    IF v.kind = "num" THEN [status |-> 1, out |-> v.n]
                      ELSE [status |-> 0, out |-> old]

\* jsonnet_json_make_number: a new number value.
jsonnet_json_make_number(x) == NumVal(x)

\* the a + b of native_add
native_add_sum_sub(a, b) == a - b
native_add_sum(a, b) == a + b

\* WriteStr with a line terminator added, as puts would
WriteStrLine(stream, s) == stream \o s \o <<"\n">>
\* fprintf(stream, "%s", s) / printf("%s", s): appends the bytes of s
WriteStr(stream, s) == stream \o s

Init ==
    /\ pc = "L28"
    /\ argc \in 0..MaxArgc
    /\ file \in Files
    /\ vm = "none"
    /\ native_ctx = [state |-> "none", vm |-> NULL]
    /\ registered = NoReg
    /\ error \in {0, 1}
    /\ output = <<>>
    /\ outbuf = "none"
    /\ heap = <<>>
    /\ call = NoCall
    /\ nCalls = 0
    /\ stdoutS = <<>>
    /\ stderrS = <<>>
    /\ exitCode = NotExited
    /\ trace = <<>>

\* ------------------------------------------------------------------- main
\* lines 28-31: if (argc != 2) { fprintf(stderr, usage); return EXIT_FAILURE; }
UsageExit ==
    /\ pc = "L28"
    /\ argc # 2
    /\ stderrS' = WriteStr(stderrS, UsageLine)
    /\ exitCode' = EXIT_FAILURE
    /\ pc' = "done"
    /\ trace' = Append(trace, "write_stderr")
    /\ UNCHANGED <<argc, file, vm, native_ctx, registered, error, output,
                   outbuf, heap, call, nCalls, stdoutS>>

\* MakeVm with the test written as argc < 2
MakeVmAtLeastTwo ==
    /\ pc = "L28"
    /\ argc >= 2
    /\ vm' = "live"
    /\ pc' = "L34"
    /\ trace' = Append(trace, "jsonnet_make")
    /\ UNCHANGED <<argc, file, native_ctx, registered, error, output, outbuf,
                   heap, call, nCalls, stdoutS, stderrS, exitCode>>

\* lines 28, 32: argc == 2; vm = jsonnet_make();
MakeVm ==
    /\ pc = "L28"
    /\ argc = 2
    /\ vm' = "live"
    /\ pc' = "L34"
    /\ trace' = Append(trace, "jsonnet_make")
    /\ UNCHANGED <<argc, file, native_ctx, registered, error, output, outbuf,
                   heap, call, nCalls, stdoutS, stderrS, exitCode>>

\* line 34: native_ctx = malloc(sizeof(native_ctx_t)); contents indeterminate
MallocCtx ==
    /\ pc = "L34"
    /\ \E g \in {NULL, VmId, GarbagePtr} :
          native_ctx' = [state |-> "alloc", vm |-> g]
    /\ pc' = "L35"
    /\ trace' = Append(trace, "malloc")
    /\ UNCHANGED <<argc, file, vm, registered, error, output, outbuf, heap,
                   call, nCalls, stdoutS, stderrS, exitCode>>

\* SetCtxVm with the assignment left out
SetCtxVmForgotten ==
    /\ pc = "L35"
    /\ pc' = "L37"
    /\ UNCHANGED <<argc, file, vm, native_ctx, registered, error, output,
                   outbuf, heap, call, nCalls, stdoutS, stderrS, exitCode,
                   trace>>

\* line 35: native_ctx->vm = vm;
SetCtxVm ==
    /\ pc = "L35"
    /\ native_ctx' = [native_ctx EXCEPT !.vm = VmId]
    /\ pc' = "L37"
    /\ UNCHANGED <<argc, file, vm, registered, error, output, outbuf, heap,
                   call, nCalls, stdoutS, stderrS, exitCode, trace>>

\* lines 36-37: jsonnet_native_callback(vm, "nativeAdd", native_add, native_ctx, params);
RegisterCallback ==
    /\ pc = "L37"
    /\ registered' = [name |-> CallbackName, ctx |-> "native_ctx", params |-> params]
    /\ pc' = "L39"
    /\ trace' = Append(trace, "jsonnet_native_callback")
    /\ UNCHANGED <<argc, file, vm, native_ctx, error, output, outbuf, heap,
                   call, nCalls, stdoutS, stderrS, exitCode>>

\* line 39, the call: output = jsonnet_evaluate_file(vm, argv[1], &error);
EvaluateCall ==
    /\ pc = "L39"
    /\ pc' = "in_eval"
    /\ trace' = Append(trace, "jsonnet_evaluate_file")
    /\ UNCHANGED <<argc, file, vm, native_ctx, registered, error, output,
                   outbuf, heap, call, nCalls, stdoutS, stderrS, exitCode>>

\* the engine, evaluating: it builds a value that may become an argument
EngineNewValue ==
    /\ pc = "in_eval"
    /\ Len(heap) < MaxHeap
    /\ \E v \in Values : heap' = Append(heap, v)
    /\ UNCHANGED <<pc, argc, file, vm, native_ctx, registered, error, output,
                   outbuf, call, nCalls, stdoutS, stderrS, exitCode, trace>>

\* native_add propagating an extraction failure instead of ignoring it
native_add_checked ==
    /\ pc = "in_eval"
    /\ registered.name = CallbackName
    /\ nCalls < MaxCalls
    /\ \E h0 \in 1..Len(heap), h1 \in 1..Len(heap), ia \in Nums, ib \in Nums :
          LET ctxvm == native_ctx.vm
              ra == jsonnet_json_extract_number(heap[h0], ia)
              rb == jsonnet_json_extract_number(heap[h1], ib)
              ok == ra.status = 1 /\ rb.status = 1
              res == jsonnet_json_make_number(native_add_sum(ra.out, rb.out))
          IN  /\ heap' = IF ok THEN Append(heap, res) ELSE heap
              /\ call' = [arg0 |-> h0, arg1 |-> h1, a |-> ra.out, b |-> rb.out,
                          ret |-> IF ok THEN Len(heap) + 1 ELSE NULL,
                          success |-> IF ok THEN NATIVE_ADD_SUCCESS ELSE 0,
                          st0 |-> ra.status, st1 |-> rb.status,
                          vmArg |-> ctxvm, ctxState |-> native_ctx.state,
                          vmState |-> vm]
    /\ nCalls' = nCalls + 1
    /\ trace' = trace \o <<"jsonnet_json_extract_number",
                           "jsonnet_json_extract_number",
                           "jsonnet_json_make_number">>
    /\ UNCHANGED <<pc, argc, file, vm, native_ctx, registered, error, output,
                   outbuf, stdoutS, stderrS, exitCode>>

\* lines 13-21: native_add(nctx, argv, success), invoked by the engine for a
\* call of the registered function with two argument handles.  a and b are
\* uninitialized locals: ia, ib are their indeterminate initial contents.
native_add ==
    /\ pc = "in_eval"
    /\ registered.name = CallbackName
    /\ nCalls < MaxCalls
    /\ \E h0 \in 1..Len(heap), h1 \in 1..Len(heap), ia \in Nums, ib \in Nums :
          LET ctxvm == native_ctx.vm
              ra == jsonnet_json_extract_number(heap[h0], ia)
              rb == jsonnet_json_extract_number(heap[h1], ib)
              res == jsonnet_json_make_number(native_add_sum(ra.out, rb.out))
          IN  /\ heap' = Append(heap, res)
              /\ call' = [arg0 |-> h0, arg1 |-> h1, a |-> ra.out, b |-> rb.out,
                          ret |-> Len(heap) + 1, success |-> NATIVE_ADD_SUCCESS,
                          st0 |-> ra.status, st1 |-> rb.status,
                          vmArg |-> ctxvm, ctxState |-> native_ctx.state,
                          vmState |-> vm]
    /\ nCalls' = nCalls + 1
    /\ trace' = trace \o <<"jsonnet_json_extract_number",
                           "jsonnet_json_extract_number",
                           "jsonnet_json_make_number">>
    /\ UNCHANGED <<pc, argc, file, vm, native_ctx, registered, error, output,
                   outbuf, stdoutS, stderrS, exitCode>>

\* line 39, the return: the engine hands back a buffer and sets error
EvaluateReturn ==
    /\ pc = "in_eval"
    /\ \E e \in {0, 1}, s \in Strings :
          /\ error' = e
          /\ output' = s
    /\ outbuf' = "held"
    /\ pc' = "L40"
    /\ trace' = Append(trace, "jsonnet_evaluate_file:return")
    /\ UNCHANGED <<argc, file, vm, native_ctx, registered, heap, call, nCalls,
                   stdoutS, stderrS, exitCode>>

\* ReportError writing the diagnostic to standard output
ReportErrorToStdout ==
    /\ pc = "L40"
    /\ error # 0
    /\ stdoutS' = WriteStr(stdoutS, output)
    /\ pc' = "L42"
    /\ trace' = Append(trace, "write_stdout")
    /\ UNCHANGED <<argc, file, vm, native_ctx, registered, error, output,
                   outbuf, heap, call, nCalls, stderrS, exitCode>>

\* lines 40-41: if (error) fprintf(stderr, "%s", output);
ReportError ==
    /\ pc = "L40"
    /\ error # 0
    /\ stderrS' = WriteStr(stderrS, output)
    /\ pc' = "L42"
    /\ trace' = Append(trace, "write_stderr")
    /\ UNCHANGED <<argc, file, vm, native_ctx, registered, error, output,
                   outbuf, heap, call, nCalls, stdoutS, exitCode>>

\* ReleaseOnError without the release: the buffer leaks on the error path
ReleaseOnErrorSkipped ==
    /\ pc = "L42"
    /\ pc' = "L43"
    /\ UNCHANGED <<argc, file, vm, native_ctx, registered, error, output,
                   outbuf, heap, call, nCalls, stdoutS, stderrS, exitCode,
                   trace>>

\* line 42: jsonnet_realloc(vm, output, 0);
ReleaseOnError ==
    /\ pc = "L42"
    /\ outbuf' = "released"
    /\ pc' = "L43"
    /\ trace' = Append(trace, "jsonnet_realloc")
    /\ UNCHANGED <<argc, file, vm, native_ctx, registered, error, output,
                   heap, call, nCalls, stdoutS, stderrS, exitCode>>

\* DestroyOnError without the destroy: the handle leaks on the error path
DestroyOnErrorSkipped ==
    /\ pc = "L43"
    /\ pc' = "L44"
    /\ UNCHANGED <<argc, file, vm, native_ctx, registered, error, output,
                   outbuf, heap, call, nCalls, stdoutS, stderrS, exitCode,
                   trace>>

\* line 43: jsonnet_destroy(vm);
DestroyOnError ==
    /\ pc = "L43"
    /\ vm' = "destroyed"
    /\ pc' = "L44"
    /\ trace' = Append(trace, "jsonnet_destroy")
    /\ UNCHANGED <<argc, file, native_ctx, registered, error, output, outbuf,
                   heap, call, nCalls, stdoutS, stderrS, exitCode>>

\* line 44: return EXIT_FAILURE;
ExitOnError ==
    /\ pc = "L44"
    /\ exitCode' = EXIT_FAILURE
    /\ pc' = "done"
    /\ UNCHANGED <<argc, file, vm, native_ctx, registered, error, output,
                   outbuf, heap, call, nCalls, stdoutS, stderrS, trace>>

\* lines 40, 46: error == 0; printf("%s", output);
PrintOutput ==
    /\ pc = "L40"
    /\ error = 0
    /\ stdoutS' = WriteStr(stdoutS, output)
    /\ pc' = "L47"
    /\ trace' = Append(trace, "write_stdout")
    /\ UNCHANGED <<argc, file, vm, native_ctx, registered, error, output,
                   outbuf, heap, call, nCalls, stderrS, exitCode>>

\* line 47: jsonnet_realloc(vm, output, 0);
ReleaseOnSuccess ==
    /\ pc = "L47"
    /\ outbuf' = "released"
    /\ pc' = "L48"
    /\ trace' = Append(trace, "jsonnet_realloc")
    /\ UNCHANGED <<argc, file, vm, native_ctx, registered, error, output,
                   heap, call, nCalls, stdoutS, stderrS, exitCode>>

\* FreeCtx without the free: the record leaks on the success path
FreeCtxSkipped ==
    /\ pc = "L48"
    /\ pc' = "L49"
    /\ UNCHANGED <<argc, file, vm, native_ctx, registered, error, output,
                   outbuf, heap, call, nCalls, stdoutS, stderrS, exitCode,
                   trace>>

\* line 48: free(native_ctx);
FreeCtx ==
    /\ pc = "L48"
    /\ native_ctx' = [native_ctx EXCEPT !.state = "freed"]
    /\ pc' = "L49"
    /\ trace' = Append(trace, "free")
    /\ UNCHANGED <<argc, file, vm, registered, error, output, outbuf, heap,
                   call, nCalls, stdoutS, stderrS, exitCode>>

\* line 49: jsonnet_destroy(vm);
DestroyOnSuccess ==
    /\ pc = "L49"
    /\ vm' = "destroyed"
    /\ pc' = "L50"
    /\ trace' = Append(trace, "jsonnet_destroy")
    /\ UNCHANGED <<argc, file, native_ctx, registered, error, output, outbuf,
                   heap, call, nCalls, stdoutS, stderrS, exitCode>>

\* line 50: return EXIT_SUCCESS;
ExitOnSuccess ==
    /\ pc = "L50"
    /\ exitCode' = EXIT_SUCCESS
    /\ pc' = "done"
    /\ UNCHANGED <<argc, file, vm, native_ctx, registered, error, output,
                   outbuf, heap, call, nCalls, stdoutS, stderrS, trace>>

Next ==
    \/ UsageExit
    \/ MakeVm
    \/ MallocCtx
    \/ SetCtxVm
    \/ RegisterCallback
    \/ EvaluateCall
    \/ EngineNewValue
    \/ native_add
    \/ EvaluateReturn
    \/ ReportError
    \/ ReleaseOnError
    \/ DestroyOnError
    \/ ExitOnError
    \/ PrintOutput
    \/ ReleaseOnSuccess
    \/ FreeCtx
    \/ DestroyOnSuccess
    \/ ExitOnSuccess

Spec == Init /\ [][Next]_vars

\* ------------------------------------------------------ reading the trace
Count(e) == Cardinality({i \in 1..Len(trace) : trace[i] = e})
RECURSIVE FirstAt(_, _)
FirstAt(e, i) ==
    IF i > Len(trace) THEN 0 ELSE IF trace[i] = e THEN i ELSE FirstAt(e, i + 1)
Pos(e) == FirstAt(e, 1)
Happened(e) == Pos(e) > 0
IsPrefix(s, t) == Len(s) <= Len(t) /\ SubSeq(t, 1, Len(s)) = s
IsCallbackCall(e) == e \in {"jsonnet_json_extract_number", "jsonnet_json_make_number"}
IsVmCall(e) == e \in {"jsonnet_native_callback", "jsonnet_evaluate_file",
                      "jsonnet_realloc", "jsonnet_json_extract_number",
                      "jsonnet_json_make_number"}
IsEngineCall(e) == IsVmCall(e) \/ e \in {"jsonnet_make", "jsonnet_destroy"}
MainTrace == SelectSeq(trace, LAMBDA e : ~IsCallbackCall(e))
SuccessTrace == <<"jsonnet_make", "malloc", "jsonnet_native_callback",
                  "jsonnet_evaluate_file", "jsonnet_evaluate_file:return",
                  "write_stdout", "jsonnet_realloc", "free", "jsonnet_destroy">>
FailureTrace == <<"jsonnet_make", "malloc", "jsonnet_native_callback",
                  "jsonnet_evaluate_file", "jsonnet_evaluate_file:return",
                  "write_stderr", "jsonnet_realloc", "jsonnet_destroy">>
Exited == pc = "done"
ExitedOk == Exited /\ argc = 2 /\ error = 0
ExitedErr == Exited /\ argc = 2 /\ error # 0

\* ------------------------------------------------------------------ claims
\* C1: when argc # 2 the process writes exactly the usage line to standard
\* error, exits with EXIT_FAILURE, and never touches the engine: no
\* jsonnet_make, no context record, no registration, no engine call at all.
C1_UsageNoEngine ==
    argc # 2 =>
        /\ vm = "none"
        /\ native_ctx.state = "none"
        /\ registered = NoReg
        /\ \A i \in 1..Len(trace) : ~IsEngineCall(trace[i]) /\ trace[i] # "malloc"
        /\ Exited => /\ stderrS = UsageLine
                     /\ stdoutS = <<>>
                     /\ exitCode = EXIT_FAILURE
C1_Witness == Exited /\ argc = 3 /\ stderrS = UsageLine

\* C2: with one file argument and no evaluation error the process exits 0,
\* standard output is exactly the engine's string and standard error is empty.
C2_SuccessOutput ==
    ExitedOk => /\ exitCode = EXIT_SUCCESS
                /\ stdoutS = output
                /\ stderrS = <<>>
C2_Witness == ExitedOk /\ output = <<"5", "\n">> /\ exitCode = EXIT_SUCCESS

\* C3: with one file argument and the error flag set the process exits with
\* EXIT_FAILURE, standard error is exactly the engine's diagnostic and
\* standard output is empty.
C3_FailureOutput ==
    ExitedErr => /\ exitCode = EXIT_FAILURE
                 /\ exitCode # 0
                 /\ stderrS = output
                 /\ stdoutS = <<>>
C3_Witness == ExitedErr /\ output = <<"5">> /\ stderrS = <<"5">>

\* C4: every native_add invocation on two number handles returns a new handle
\* whose extracted number is the sum of the two arguments' numbers, sets the
\* success flag, makes exactly one handle, and leaves the existing handles and
\* the context record as they were.
C4_AddNumbers ==
    [][(nCalls' = nCalls + 1
          /\ heap[call'.arg0].kind = "num" /\ heap[call'.arg1].kind = "num")
        => /\ call'.ret = Len(heap) + 1
           /\ Len(heap') = Len(heap) + 1
           /\ jsonnet_json_extract_number(heap'[call'.ret], -1)
                 = [status |-> 1, out |-> heap[call'.arg0].n + heap[call'.arg1].n]
           /\ call'.success = 1
           /\ SubSeq(heap', 1, Len(heap)) = heap
           /\ native_ctx' = native_ctx]_vars
C4_Witness ==
    /\ nCalls > 0
    /\ call.st0 = 1 /\ call.st1 = 1
    /\ call.a = 1 /\ call.b = 1
    /\ heap[call.ret] = NumVal(2)

\* C5: no reachable state has a live machine handle with the callback
\* registered and the context record already freed.
C5_CtxOutlivesVm ==
    ~(vm = "live" /\ registered.name = CallbackName /\ native_ctx.state = "freed")

\* C6: on every run that reaches jsonnet_evaluate_file the output buffer is
\* released exactly once before exit (never twice), after its contents were
\* written to a stream and before jsonnet_destroy.
C6_BufferReleasedOnce ==
    /\ Count("jsonnet_realloc") <= 1
    /\ (Exited /\ Happened("jsonnet_evaluate_file"))
          => Count("jsonnet_realloc") = 1 /\ outbuf = "released"
    /\ outbuf = "released"
          => /\ Count("jsonnet_realloc") = 1
             /\ \/ Happened("write_stdout") /\ Pos("write_stdout") < Pos("jsonnet_realloc")
                                            /\ stdoutS = output
                \/ Happened("write_stderr") /\ Pos("write_stderr") < Pos("jsonnet_realloc")
                                            /\ stderrS = output
    /\ Happened("jsonnet_destroy")
          => Happened("jsonnet_realloc") /\ Pos("jsonnet_realloc") < Pos("jsonnet_destroy")
C6_Witness == ExitedErr /\ outbuf = "released" /\ vm = "destroyed"

\* C7: a run that creates the machine handle creates it once and destroys it
\* once before exit, on both paths, and makes no engine call that takes the
\* handle after jsonnet_destroy.
C7_VmOnce ==
    /\ Count("jsonnet_make") <= 1
    /\ Count("jsonnet_destroy") <= 1
    /\ (Exited /\ Happened("jsonnet_make"))
          => Count("jsonnet_destroy") = 1 /\ vm = "destroyed"
    /\ LET made == Pos("jsonnet_make")
           destroyed == Pos("jsonnet_destroy")
       IN  /\ destroyed > 0
                 => /\ 0 < made /\ made < destroyed
                    /\ \A i \in (destroyed + 1)..Len(trace) : ~IsEngineCall(trace[i])
           /\ \A i \in 1..Len(trace) : IsVmCall(trace[i]) => 0 < made /\ made < i
C7_Witness == Exited /\ Count("jsonnet_make") = 1 /\ Count("jsonnet_destroy") = 1
                     /\ native_ctx.state = "freed"

\* C8: main runs its steps in one fixed order (create, allocate and fill the
\* context, register, evaluate, branch, write, release); native_add runs only
\* between the call of jsonnet_evaluate_file and its return, with the callback
\* registered, the context record allocated, its vm field the live handle.
C8_LinearAndCallbackInEval ==
    argc = 2 =>
    /\ IsPrefix(MainTrace, SuccessTrace) \/ IsPrefix(MainTrace, FailureTrace)
    /\ Len(MainTrace) >= 6 =>
          MainTrace[6] = (IF error # 0 THEN "write_stderr" ELSE "write_stdout")
    /\ pc = "L39" => /\ registered.name = CallbackName
                     /\ native_ctx = [state |-> "alloc", vm |-> VmId]
    /\ LET reg == Pos("jsonnet_native_callback")
           called == Pos("jsonnet_evaluate_file")
           returned == Pos("jsonnet_evaluate_file:return")
       IN  \A i \in 1..Len(trace) :
              IsCallbackCall(trace[i])
                 => /\ 0 < reg /\ reg < called
                    /\ called < i
                    /\ returned > 0 => i < returned
    /\ nCalls > 0 => /\ call.ctxState = "alloc"
                     /\ call.vmArg = VmId
                     /\ call.vmState = "live"
C8_Witness == Exited /\ nCalls = 2 /\ call.vmArg = VmId

\* C9: native_add reports success on every invocation, also when an
\* extraction fails: the flag is set and a made number handle is returned.
C9_AlwaysSuccess ==
    nCalls > 0 => /\ call.success = 1
                  /\ call.ret \in 1..Len(heap)
                  /\ heap[call.ret].kind = "num"
C9_Witness == nCalls > 0 /\ call.st0 = 0 /\ call.st1 = 1 /\ call.success = 1

\* C10: the context record is freed at most once; exactly once on the success
\* path; never on the evaluation-failure path, where it is still allocated at
\* exit and only the buffer and the handle were released.
C10_CtxFreedOnlyOnSuccess ==
    /\ Count("free") <= 1
    /\ ExitedOk => Count("free") = 1 /\ native_ctx.state = "freed"
    /\ ExitedErr => /\ Count("free") = 0
                    /\ native_ctx.state = "alloc"
                    /\ exitCode = EXIT_FAILURE
                    /\ outbuf = "released"
                    /\ vm = "destroyed"
C10_Witness == ExitedErr /\ native_ctx.state = "alloc" /\ Count("free") = 0
====
